---- MODULE Spec2Model ----
(***************************************************************************)
(* A model of spacv's spatial cross-validation splitters (HBLOCK, SLOO,    *)
(* assign_pt_to_grid) and of its variogram and area-of-applicability       *)
(* routines (variogram_at_lag, compute_semivariance, aoa), and of the      *)
(* worker pool of plot_autocorrelation_ranges.                             *)
(*                                                                         *)
(* Python's 0-based positions and index labels are kept: a frame or array  *)
(* of n rows is a function with domain 0..n-1.                             *)
(***************************************************************************)
EXTENDS Integers, Sequences, FiniteSets, TLC

(***************************************************************************)
(* Bounds of the model.                                                    *)
(***************************************************************************)
\* HBLOCK: most points, most tiles in the row of tiles, largest tile id.
MaxPts == 2
MaxTiles == 2
MaxId == 2
\* Largest buffer radius, in halves of a coordinate unit (3 is radius 1.5).
MaxRadius == 3
\* SLOO: most points.
MaxSlooPts == 4

\* The missing value (numpy's nan): a number no id, distance or score takes.
NaN == -999999

VARIABLES
    pc,              \* position of the running generator or function
    X,               \* splitters: the point set, index label -> <<x, y>>
    buffer_radius,   \* splitters: self.buffer_radius, in halves of a unit
    grid,            \* HBLOCK: the tile frame, index label -> tile
    XYs_grid_id,     \* HBLOCK: column XYs['grid_id'] after assign_pt_to_grid
    yielded,         \* splitters: the folds yielded so far, in order
    loop,            \* position of the running for loop
    XYs,             \* variogram: the coordinates, position -> <<x, y>>
    x,               \* variogram: the variable, position -> value
    lags,            \* variogram: the lags, position -> distance
    bw,              \* variogram: the bandwidth
    semivariances,   \* variogram: the semivariances computed so far
    logged,          \* variogram: positions of the lags logging.error saw
    training_data,   \* aoa: the training instances (one feature)
    new_data,        \* aoa: the new instances (one feature)
    fold_indices,    \* aoa: the folds, each a list of training indices
    thres,           \* aoa: the quantile asked for, then the threshold
    mindist,         \* aoa: distance of each new instance to the nearest
    train_dist,      \* aoa: the matrix of pairwise training distances
    train_dist_avgmean,  \* aoa: the global normalization constant
    DIs,             \* aoa: the dissimilarity index of each new instance
    masked_result,   \* aoa: the applicability mask
    workers,         \* ranges: the workers argument
    X_values_T,      \* ranges: X.values.T, position -> covariate column
    fitted,          \* ranges: what the fit gives for each column
    results,         \* ranges: the AsyncResults, in submission order
    outqueue,        \* ranges: the pool's finished tasks, in finishing order
    ranges           \* ranges: the list of effective ranges

splitterVars == <<X, buffer_radius, grid, XYs_grid_id, yielded>>

variogramVars == <<XYs, x, lags, bw, semivariances, logged>>

aoaVars ==
    <<training_data, new_data, fold_indices, thres, mindist, train_dist,
      train_dist_avgmean, DIs, masked_result>>

rangesVars == <<workers, X_values_T, fitted, results, outqueue, ranges>>

vars == <<pc, loop, splitterVars, variogramVars, aoaVars, rangesVars>>

\* The state of the components a run does not use.
SplittersIdle ==
    /\ X = <<>> /\ buffer_radius = 0 /\ grid = <<>>
    /\ XYs_grid_id = <<>> /\ yielded = <<>>

VariogramIdle ==
    /\ XYs = <<>> /\ x = <<>> /\ lags = <<>> /\ bw = 0
    /\ semivariances = <<>> /\ logged = {}

AoaIdle ==
    /\ training_data = <<>> /\ new_data = <<>> /\ fold_indices = <<>>
    /\ thres = 0 /\ mindist = <<>> /\ train_dist = <<>>
    /\ train_dist_avgmean = 0 /\ DIs = <<>> /\ masked_result = <<>>

RangesIdle ==
    /\ workers = 1 /\ X_values_T = <<>> /\ fitted = <<>>
    /\ results = <<>> /\ outqueue = <<>> /\ ranges = <<>>

(***************************************************************************)
(* Helpers.                                                                *)
(***************************************************************************)
Range(f) == {f[i] : i \in DOMAIN f}

Sq(a) == a * a

Max2(a, b) == IF a >= b THEN a ELSE b

\* The elements of a finite set of integers in ascending order (np.unique).
SortedSeq(S) ==
    CHOOSE s \in [1..Cardinality(S) -> S] :
        \A a, b \in 1..Cardinality(S) : a < b => s[a] < s[b]

\* All frames of 1..n rows over the row values R.
Frames(R, n) == UNION {[0..(m - 1) -> R] : m \in 1..n}

(***************************************************************************)
(* Geometry: planar points on an integer lattice, tiles as axis-parallel   *)
(* rectangles, buffers as the closed region within the radius.             *)
(***************************************************************************)
TileW == 2
TileH == 2

\* Squared distance between two points.
Dist2(p, q) == Sq(p[1] - q[1]) + Sq(p[2] - q[2])

\* Point p lies in the circular buffer of radius r (in halves) around c.
InPointBuffer(p, c, r) == 4 * Dist2(p, c) <= Sq(r)

\* Point p lies strictly inside the tile (op='within').
Within(p, tile) ==
    /\ tile.x0 < p[1] /\ p[1] < tile.x1
    /\ tile.y0 < p[2] /\ p[2] < tile.y1

\* Point p lies in the tile polygon grown by radius r (in halves).
InPolyBuffer(p, tile, r) ==
    LET dx == Max2(Max2(tile.x0 - p[1], p[1] - tile.x1), 0)
        dy == Max2(Max2(tile.y0 - p[2], p[2] - tile.y1), 0)
    IN  4 * (Sq(dx) + Sq(dy)) <= Sq(r)

\* Squared distance from p to the tile's centroid, both doubled (exact).
CentroidDist2(p, tile) ==
    Sq(2 * p[1] - (tile.x0 + tile.x1)) + Sq(2 * p[2] - (tile.y0 + tile.y1))

(***************************************************************************)
(* The tile provider, construct_blocks: an ordered collection of tiles     *)
(* with unique integer ids, here a row of n rectangles; the frame's index  *)
(* labels are the positions 0..n-1.                                        *)
(***************************************************************************)
TileAt(k, id) ==
    [grid_id |-> id, x0 |-> k * TileW, x1 |-> (k + 1) * TileW,
     y0 |-> 0, y1 |-> TileH]

construct_blocks(n) ==
    {[k \in 0..(n - 1) |-> TileAt(k, ids[k])] :
        ids \in {f \in [0..(n - 1) -> 0..MaxId] :
                    \A a, b \in 0..(n - 1) : a # b => f[a] # f[b]}}

\* The lattice points of the region the n tiles cover.
Region(n) == (0..(n * TileW)) \X (0..TileH)

(***************************************************************************)
(* assign_pt_to_grid                                                       *)
(***************************************************************************)
\* gpd.sjoin(XYs, grid, how='left', op='within'): the id of the tile the
\* point is within, missing when it is within none.
sjoin(pts, g) ==
    [i \in DOMAIN pts |->
        IF \E k \in DOMAIN g : Within(pts[i], g[k])
        THEN g[CHOOSE k \in DOMAIN g : Within(pts[i], g[k])].grid_id
        ELSE NaN]

\* The positions of the tiles whose centroid is nearest to p.
NearestCentroids(p, g) ==
    {k \in DOMAIN g :
        \A m \in DOMAIN g : CentroidDist2(p, g[k]) <= CentroidDist2(p, g[m])}

\* tree.query(border_pts, k=1): one answer per border point, a position in
\* the centroid array; which of several nearest centroids is returned is
\* left to the tree.
KDTreeAnswers(pts, g, border) ==
    {q \in [border -> DOMAIN g] :
        \A i \in border : q[i] \in NearestCentroids(pts[i], g)}

\* XYs.loc[border_pt_index, 'grid_id'] = grid_id
assign_pt_to_grid(joined, q) ==
    [i \in DOMAIN joined |-> IF joined[i] = NaN THEN q[i] ELSE joined[i]]

(***************************************************************************)
(* HBLOCK._iter_test_indices                                               *)
(***************************************************************************)
\* np.unique(grid.grid_id)
grid_ids == SortedSeq({grid[k].grid_id : k \in DOMAIN grid})

\* XYs.loc[XYs['grid_id'] == grid_id].index.values
test_points(grid_id) == {i \in DOMAIN X : XYs_grid_id[i] = grid_id}

\* gpd.clip(XYs, grid.loc[[grid_id]].buffer(buffer_radius)), less the test
\* points; grid.loc looks grid_id up among the frame's index labels.
hblock_train_exclude(grid_id) ==
    {i \in DOMAIN X : InPolyBuffer(X[i], grid[grid_id], buffer_radius)}
        \ test_points(grid_id)

InitHBLOCK ==
    /\ pc = "start"
    /\ \E n \in 1..MaxTiles :
          /\ grid \in construct_blocks(n)
          /\ X \in Frames(Region(n), MaxPts)
    /\ buffer_radius \in 0..MaxRadius
    /\ XYs_grid_id = <<>>
    /\ loop = 0
    /\ yielded = <<>>
    /\ VariogramIdle
    /\ AoaIdle
    /\ RangesIdle

\* Lines 54-66: the tiles are built and every point is assigned.
HBLOCK_Assign ==
    /\ pc = "start"
    /\ LET joined == sjoin(X, grid)
           border == {i \in DOMAIN X : joined[i] = NaN}
       IN  \E q \in KDTreeAnswers(X, grid, border) :
               XYs_grid_id' = assign_pt_to_grid(joined, q)
    /\ pc' = "loop"
    /\ UNCHANGED <<X, buffer_radius, grid, loop, yielded>>
    /\ UNCHANGED <<variogramVars, aoaVars, rangesVars>>

\* Lines 73-75: a tile id with no test point yields nothing.
HBLOCK_SkipEmpty ==
    /\ pc = "loop" /\ loop < Len(grid_ids)
    /\ test_points(grid_ids[loop + 1]) = {}
    /\ loop' = loop + 1
    /\ UNCHANGED <<pc, X, buffer_radius, grid, XYs_grid_id, yielded>>
    /\ UNCHANGED <<variogramVars, aoaVars, rangesVars>>

\* Lines 78-85: the fold of a tile with a dead zone.
HBLOCK_YieldBuffered ==
    /\ pc = "loop" /\ loop < Len(grid_ids)
    /\ LET grid_id == grid_ids[loop + 1]
       IN  /\ test_points(grid_id) # {}
           /\ buffer_radius > 0
           /\ grid_id \in DOMAIN grid
           /\ yielded' = Append(yielded,
                  [grid_id |-> grid_id, test |-> test_points(grid_id),
                   exclude |-> hblock_train_exclude(grid_id)])
    /\ loop' = loop + 1
    /\ UNCHANGED <<pc, X, buffer_radius, grid, XYs_grid_id>>
    /\ UNCHANGED <<variogramVars, aoaVars, rangesVars>>

\* Line 80: grid.loc[[grid_id]] raises KeyError for a label the frame lacks.
HBLOCK_KeyError ==
    /\ pc = "loop" /\ loop < Len(grid_ids)
    /\ LET grid_id == grid_ids[loop + 1]
       IN  /\ test_points(grid_id) # {}
           /\ buffer_radius > 0
           /\ grid_id \notin DOMAIN grid
    /\ pc' = "raised"
    /\ UNCHANGED <<X, buffer_radius, grid, XYs_grid_id, loop, yielded>>
    /\ UNCHANGED <<variogramVars, aoaVars, rangesVars>>

\* Lines 87-90: without a buffer the excluded set is empty.
HBLOCK_YieldEmpty ==
    /\ pc = "loop" /\ loop < Len(grid_ids)
    /\ LET grid_id == grid_ids[loop + 1]
       IN  /\ test_points(grid_id) # {}
           /\ ~(buffer_radius > 0)
           /\ yielded' = Append(yielded,
                  [grid_id |-> grid_id, test |-> test_points(grid_id),
                   exclude |-> {}])
    /\ loop' = loop + 1
    /\ UNCHANGED <<pc, X, buffer_radius, grid, XYs_grid_id>>
    /\ UNCHANGED <<variogramVars, aoaVars, rangesVars>>

\* The for loop of line 69 is exhausted.
HBLOCK_Stop ==
    /\ pc = "loop" /\ loop = Len(grid_ids)
    /\ pc' = "done"
    /\ UNCHANGED <<X, buffer_radius, grid, XYs_grid_id, loop, yielded>>
    /\ UNCHANGED <<variogramVars, aoaVars, rangesVars>>

NextHBLOCK ==
    \/ HBLOCK_Assign
    \/ HBLOCK_SkipEmpty
    \/ HBLOCK_YieldBuffered
    \/ HBLOCK_KeyError
    \/ HBLOCK_YieldEmpty
    \/ HBLOCK_Stop

SpecHBLOCK == InitHBLOCK /\ [][NextHBLOCK]_vars

(***************************************************************************)
(* SLOO._iter_test_indices                                                 *)
(***************************************************************************)
\* The lattice the SLOO point sets are drawn from.
SlooRegion == (0..3) \X (0..1)

\* A variant that leaves the test index in the clipped set.
sloo_train_exclude_with_test(test_index) ==
    {j \in DOMAIN X : InPointBuffer(X[j], X[test_index], buffer_radius)}

\* gpd.clip(X, X.loc[[test_index]].centroid.buffer(buffer_radius)), less
\* the test index itself (lines 111-115).
sloo_train_exclude(test_index) ==
    {j \in DOMAIN X : InPointBuffer(X[j], X[test_index], buffer_radius)}
        \ {test_index}

InitSLOO ==
    /\ pc = "loop"
    /\ X \in Frames(SlooRegion, MaxSlooPts)
    /\ buffer_radius \in 1..MaxRadius
    /\ grid = <<>>
    /\ XYs_grid_id = <<>>
    /\ loop = 0
    /\ yielded = <<>>
    /\ VariogramIdle
    /\ AoaIdle
    /\ RangesIdle

\* Lines 108-120: one pass of the loop over range(sloo_n).
SLOO_Yield ==
    /\ pc = "loop" /\ loop < Cardinality(DOMAIN X)
    /\ yielded' = Append(yielded,
           [test |-> {loop}, exclude |-> sloo_train_exclude(loop)])
    /\ loop' = loop + 1
    /\ UNCHANGED <<pc, X, buffer_radius, grid, XYs_grid_id>>
    /\ UNCHANGED <<variogramVars, aoaVars, rangesVars>>

\* range(sloo_n) is exhausted.
SLOO_Stop ==
    /\ pc = "loop" /\ loop = Cardinality(DOMAIN X)
    /\ pc' = "done"
    /\ UNCHANGED <<X, buffer_radius, grid, XYs_grid_id, loop, yielded>>
    /\ UNCHANGED <<variogramVars, aoaVars, rangesVars>>

NextSLOO ==
    \/ SLOO_Yield
    \/ SLOO_Stop

SpecSLOO == InitSLOO /\ [][NextSLOO]_vars

(***************************************************************************)
(* Properties of the splitters.                                            *)
(***************************************************************************)
\* The tile of the partition that carries the id g.
TileOfId(g) == grid[CHOOSE k \in DOMAIN grid : grid[k].grid_id = g]

\* C1: once HBLOCK's fold sequence is complete, every point index 0..N-1 is
\* in the test set of exactly one fold (a partition of the index range).
C1_PartitionProperty ==
    pc = "done" =>
        \A i \in DOMAIN X :
            Cardinality({k \in 1..Len(yielded) : i \in yielded[k].test}) = 1

\* C2: after assign_pt_to_grid every point carries the id of an existing
\* tile: the tile it is strictly within, or, when it is within none, a tile
\* whose centroid is nearest, whatever the unique tile ids are.
C2_AssignedNearestTileId ==
    pc \in {"loop", "done", "raised"} =>
        \A i \in DOMAIN X :
            /\ \A k \in DOMAIN grid :
                   Within(X[i], grid[k]) => XYs_grid_id[i] = grid[k].grid_id
            /\ (\A k \in DOMAIN grid : ~Within(X[i], grid[k])) =>
                   XYs_grid_id[i] \in
                       {grid[k].grid_id : k \in NearestCentroids(X[i], grid)}

\* C4: every fold HBLOCK yields has an empty excluded set when buffer_radius
\* is 0, and otherwise excludes exactly the points within the fold's tile
\* grown by buffer_radius, less the fold's test points; the excluded set
\* never meets the test set.
C4_ExcludedIsDeadZone ==
    \A k \in 1..Len(yielded) :
        LET f == yielded[k]
        IN  /\ buffer_radius = 0 => f.exclude = {}
            /\ buffer_radius > 0 =>
                   f.exclude =
                       {i \in DOMAIN X :
                           InPolyBuffer(X[i], TileOfId(f.grid_id),
                                        buffer_radius)} \ f.test
            /\ f.exclude \cap f.test = {}

\* C3: SLOO yields one fold per point, in index order: fold i tests {i} and
\* excludes exactly the other points within buffer_radius of point i.
C3_SlooFolds ==
    /\ \A k \in 1..Len(yielded) :
           /\ yielded[k].test = {k - 1}
           /\ yielded[k].exclude =
                  {j \in DOMAIN X :
                      /\ j # k - 1
                      /\ 4 * Dist2(X[j], X[k - 1]) <= Sq(buffer_radius)}
    /\ Len(yielded) = loop
    /\ pc = "done" => Len(yielded) = Cardinality(DOMAIN X)

\* C3's scenario: points at x = 0, 1, 2, 3 with radius 1.5; the fold of
\* point 1 excludes 0 and 2 and not 3.
C3_Witness ==
    /\ pc = "done"
    /\ buffer_radius = 3
    /\ X = [i \in 0..3 |-> <<i, 0>>]
    /\ yielded[2].test = {1}
    /\ yielded[2].exclude = {0, 2}

(***************************************************************************)
(* variogram_at_lag and compute_semivariance (euclidean metric).           *)
(* Distances are compared through their squares, which is exact; a         *)
(* semivariance is the exact fraction <<numerator, denominator>>.          *)
(***************************************************************************)
MaxVarPts == 3
MaxLags == 2

\* The lattice the coordinates are drawn from, and the values, lags and
\* bandwidths tried.
VarRegion == {<<0, 0>>, <<1, 0>>, <<1, 1>>}
Values == 0..2
LagValues == {0, 2}
Bandwidths == 0..1

\* squareform(pdist(XYs)), squared.
pd_m(i, j) == Dist2(XYs[i], XYs[j])

\* lower = pd_m >= lag - bw
lower(i, j, lag) == lag - bw <= 0 \/ pd_m(i, j) >= Sq(lag - bw)

\* upper = pd_m <= lag + bw
upper(i, j, lag) == lag + bw >= 0 /\ pd_m(i, j) <= Sq(lag + bw)

\* mask = np.logical_and(lower, upper)
mask(i, j, lag) == lower(i, j, lag) /\ upper(i, j, lag)

RECURSIVE SumSqDiff(_)
\* The sum of (x[i] - x[j]) ** 2 over a set of pairs <<i, j>>.
SumSqDiff(S) ==
    IF S = {} THEN 0
    ELSE LET p == CHOOSE q \in S : TRUE
         IN  Sq(x[p[1]] - x[p[2]]) + SumSqDiff(S \ {p})

\* The pairs whose squared difference line 101 keeps: row i, columns from i
\* on (mask_i[:i] = False) that the mask selects, with ss > 0.0.
KeptPairs(lag) ==
    {p \in (DOMAIN x) \X (DOMAIN x) :
        /\ ~(p[2] < p[1])
        /\ mask(p[1], p[2], lag)
        /\ Sq(x[p[1]] - x[p[2]]) > 0}

\* A variant whose division is not guarded against an empty selection.
compute_semivariance_unguarded(lag) ==
    [value |-> <<SumSqDiff(KeptPairs(lag)), 2 * Cardinality(KeptPairs(lag))>>,
     error |-> FALSE]

\* compute_semivariance: the sum of the kept squared differences over twice
\* their number; no kept pair makes np.concatenate raise ValueError, which
\* is logged and answered with 0.
compute_semivariance(lag) ==
    IF KeptPairs(lag) = {}
    THEN [value |-> <<0, 1>>, error |-> TRUE]
    ELSE [value |-> <<SumSqDiff(KeptPairs(lag)),
                      2 * Cardinality(KeptPairs(lag))>>,
          error |-> FALSE]

InitVariogram ==
    /\ pc = "loop"
    /\ loop = 0
    /\ XYs \in Frames(VarRegion, MaxVarPts)
    /\ x \in [DOMAIN XYs -> Values]
    /\ lags \in Frames(LagValues, MaxLags)
    /\ bw \in Bandwidths
    /\ semivariances = <<>>
    /\ logged = {}
    /\ SplittersIdle
    /\ AoaIdle
    /\ RangesIdle

\* Lines 77-82: one pass of the loop over the lags.
Variogram_Lag ==
    /\ pc = "loop" /\ loop < Cardinality(DOMAIN lags)
    /\ LET r == compute_semivariance(lags[loop])
       IN  /\ semivariances' = Append(semivariances, r.value)
           /\ logged' = IF r.error THEN logged \cup {loop} ELSE logged
    /\ loop' = loop + 1
    /\ UNCHANGED <<pc, XYs, x, lags, bw, splitterVars, aoaVars, rangesVars>>

\* Line 84: the semivariances are returned beside their lags.
Variogram_Return ==
    /\ pc = "loop" /\ loop = Cardinality(DOMAIN lags)
    /\ pc' = "done"
    /\ UNCHANGED <<loop, variogramVars, splitterVars, aoaVars, rangesVars>>

NextVariogram ==
    \/ Variogram_Lag
    \/ Variogram_Return

SpecVariogram == InitVariogram /\ [][NextVariogram]_vars

(***************************************************************************)
(* Properties of the variogram.                                            *)
(***************************************************************************)
\* The unordered pairs of distinct points whose distance lies within
\* [lag - bw, lag + bw], each once.
SelectedPairs(lag) ==
    {p \in (DOMAIN x) \X (DOMAIN x) : p[1] < p[2] /\ mask(p[1], p[2], lag)}

\* C7: the call returns one semivariance per lag, in lag order, each >= 0;
\* a lag with no point pair in its band gets 0 and a logged message.
C7_OnePerLagNonNegative ==
    /\ Len(semivariances) = loop
    /\ pc = "done" => Len(semivariances) = Cardinality(DOMAIN lags)
    /\ \A k \in 1..Len(semivariances) :
           /\ semivariances[k][2] > 0
           /\ semivariances[k][1] >= 0
           /\ SelectedPairs(lags[k - 1]) = {} =>
                  /\ semivariances[k][1] = 0
                  /\ k - 1 \in logged

\* A finished call with a lag that has a pair in its band after a lag that
\* has none.
C7_Witness ==
    /\ pc = "done"
    /\ Cardinality(DOMAIN lags) = 2
    /\ SelectedPairs(lags[0]) = {} /\ semivariances[1] = <<0, 1>>
    /\ SelectedPairs(lags[1]) # {} /\ semivariances[2][1] > 0

\* C10: at every lag with a selected pair the semivariance is the sum of
\* the squared differences over all selected pairs, divided by twice the
\* number of selected pairs (a pair of equal values counts in the number).
C10_HalfMeanSquaredDifference ==
    \A k \in 1..Len(semivariances) :
        LET S == SelectedPairs(lags[k - 1])
        IN  S # {} =>
                semivariances[k][1] * (2 * Cardinality(S)) =
                    SumSqDiff(S) * semivariances[k][2]

(***************************************************************************)
(* aoa, for instances of one feature (so that the per-feature and the      *)
(* overall mean and deviation coincide and the euclidean distance is the   *)
(* absolute difference).  A float is held in fixed point, as the integer   *)
(* nearest to Scale times its value; the missing value is NaN.             *)
(***************************************************************************)
Scale == 100
MaxTrain == 3
MaxNew == 2
MaxFoldLen == 2
MaxFolds == 2

\* The feature values tried, and the quantiles asked for (in hundredths;
\* 95 is the default thres=0.95).
FeatureValues == 0..2
Quantiles == {50, 95}

Abs(a) == IF a < 0 THEN -a ELSE a

\* a / b rounded to the nearest integer, for b > 0.
RDiv(a, b) == (2 * a + b) \div (2 * b)

RECURSIVE ISqrtFrom(_, _)
ISqrtFrom(v, r) == IF Sq(r + 1) > v THEN r ELSE ISqrtFrom(v, r + 1)

\* The integer square root.
ISqrt(v) == ISqrtFrom(v, 0)

RECURSIVE SumOver(_, _)
\* The sum of f over the set D of its arguments.
SumOver(f, D) ==
    IF D = {} THEN 0
    ELSE LET i == CHOOSE j \in D : TRUE
         IN  f[i] + SumOver(f, D \ {i})

\* Float division; x / nan and nan / x are nan, and so is 0 / 0, the only
\* division by zero a caller can ask for.
FDiv(a, b) ==
    IF a = NaN \/ b = NaN \/ b = 0 THEN NaN ELSE RDiv(a * Scale, b)

\* a > b for floats: false when either is nan.
FGt(a, b) == a # NaN /\ b # NaN /\ a > b

\* np.mean(data), in fixed point.
Mean(data) ==
    RDiv(SumOver(data, DOMAIN data) * Scale, Cardinality(DOMAIN data))

\* np.std(data), in fixed point (the population deviation, ddof=0).
Std(data) ==
    LET dev == [i \in DOMAIN data |-> Sq(data[i] * Scale - Mean(data))]
    IN  ISqrt(RDiv(SumOver(dev, DOMAIN data), Cardinality(DOMAIN data)))

\* (data - np.mean(data)) / np.std(data): a zero deviation divides 0 by 0
\* in every row.
Standardize(data) ==
    [i \in DOMAIN data |->
        IF Std(data) = 0 THEN NaN
        ELSE LET d == data[i] * Scale - Mean(data)
             IN  IF d >= 0 THEN RDiv(d * Scale, Std(data))
                 ELSE -RDiv((-d) * Scale, Std(data))]

HasNaN(data) == \E i \in DOMAIN data : data[i] = NaN

\* The smallest of a non-empty set of numbers.
MinOf(S) == CHOOSE m \in S : \A v \in S : m <= v

\* tree.query(new_data, k=1): the distance to the nearest training instance.
BallTreeQuery(train, new) ==
    [j \in DOMAIN new |-> MinOf({Abs(new[j] - train[i]) : i \in DOMAIN train})]

\* squareform(pdist(training_data)) with np.fill_diagonal(train_dist, nan).
PairwiseDistances(train) ==
    [i \in DOMAIN train |->
        [j \in DOMAIN train |->
            IF i = j THEN NaN ELSE Abs(train[i] - train[j])]]

RECURSIVE Concatenate(_)
\* np.concatenate(fold_indices), as a 0-based array.
Concatenate(fs) ==
    IF fs = <<>> THEN <<>> ELSE Head(fs) \o Concatenate(Tail(fs))

RECURSIVE Repeat(_, _)
\* np.repeat(np.arange(0, len(fold_indices)), instances_in_folds), for the
\* folds fs from fold id k on.
Repeat(fs, k) ==
    IF fs = <<>> THEN <<>>
    ELSE [n \in 1..Len(Head(fs)) |-> k] \o Repeat(Tail(fs), k + 1)

\* folds = np.vstack((fold_indices, instance_fold_id)).T: row k holds the
\* training index in column 0 and its fold id in column 1.
FoldsArray(fs) ==
    [k \in 0..(Len(Concatenate(fs)) - 1) |->
        <<Concatenate(fs)[k + 1], Repeat(fs, 0)[k + 1]>>]

\* Lines 321-323: for each row i, mask = folds[:, 0] == folds[:, 0][i] and
\* train_dist[i, mask] = np.nan.
MaskFolds(dist, folds) ==
    [i \in DOMAIN dist |->
        [j \in DOMAIN dist |->
            IF folds[j][1] = folds[i][1] THEN NaN ELSE dist[i][j]]]

\* The columns of a row that are not missing.
Defined(row) == {j \in DOMAIN row : row[j] # NaN}

\* np.nanmean(train_dist, axis=1): nan for a row with nothing defined.
NanMean(dist) ==
    [i \in DOMAIN dist |->
        IF Defined(dist[i]) = {} THEN NaN
        ELSE RDiv(SumOver(dist[i], Defined(dist[i])),
                  Cardinality(Defined(dist[i])))]

\* np.nanmin(train_dist, axis=1): nan for a row with nothing defined.
NanMin(dist) ==
    [i \in DOMAIN dist |->
        IF Defined(dist[i]) = {} THEN NaN
        ELSE MinOf({dist[i][j] : j \in Defined(dist[i])})]

\* np.mean(train_dist_mean): nan as soon as one mean is nan.
AvgMean(means) ==
    IF HasNaN(means) THEN NaN
    ELSE RDiv(SumOver(means, DOMAIN means), Cardinality(DOMAIN means))

\* The values of v in ascending order, as a 0-based array.
Sorted(v) ==
    CHOOSE s \in [DOMAIN v -> Range(v)] :
        /\ \A a, b \in DOMAIN v : a < b => s[a] <= s[b]
        /\ \A val \in Range(v) :
               Cardinality({a \in DOMAIN v : s[a] = val}) =
                   Cardinality({a \in DOMAIN v : v[a] = val})

\* np.quantile(v, q) with q in hundredths: linear interpolation between the
\* two order statistics around q * (n - 1); nan when v holds a nan.
Quantile(v, q) ==
    IF HasNaN(v) THEN NaN
    ELSE LET n == Cardinality(DOMAIN v)
             h == q * (n - 1)
             lo == h \div 100
             hi == IF lo + 1 < n THEN lo + 1 ELSE lo
             s == Sorted(v)
         IN  s[lo] + RDiv((h % 100) * (s[hi] - s[lo]), 100)

\* The lists of folds tried: none, or up to MaxFolds folds of up to
\* MaxFoldLen training indices each.
FoldLists ==
    LET Fold == UNION {[1..n -> 0..(MaxTrain - 1)] : n \in 1..MaxFoldLen}
    IN  UNION {[1..n -> Fold] : n \in 0..MaxFolds}

InitAoa ==
    /\ pc = "start"
    /\ loop = 0
    /\ training_data \in Frames(FeatureValues, MaxTrain)
    /\ new_data \in Frames(FeatureValues, MaxNew)
    /\ fold_indices \in FoldLists
    /\ thres \in Quantiles
    /\ mindist = <<>>
    /\ train_dist = <<>>
    /\ train_dist_avgmean = 0
    /\ DIs = <<>>
    /\ masked_result = <<>>
    /\ SplittersIdle
    /\ VariogramIdle
    /\ RangesIdle

\* Lines 292-293: fewer than two training instances raise.
Aoa_TooFewInstances ==
    /\ pc = "start"
    /\ Cardinality(DOMAIN training_data) <= 1
    /\ pc' = "raised"
    /\ UNCHANGED <<loop, aoaVars, splitterVars, variogramVars, rangesVars>>

\* Lines 296-297: both data sets are scaled, each by its own statistics.
Aoa_Scale ==
    /\ pc = "start"
    /\ ~(Cardinality(DOMAIN training_data) <= 1)
    /\ training_data' = Standardize(training_data)
    /\ new_data' = Standardize(new_data)
    /\ pc' = "scaled"
    /\ UNCHANGED <<fold_indices, thres, mindist, train_dist,
                   train_dist_avgmean, DIs, masked_result>>
    /\ UNCHANGED <<loop, splitterVars, variogramVars, rangesVars>>

\* Lines 300-301: BallTree and its query validate their input and raise
\* ValueError on a nan.
Aoa_TreeRejectsNaN ==
    /\ pc = "scaled"
    /\ HasNaN(training_data) \/ HasNaN(new_data)
    /\ pc' = "raised"
    /\ UNCHANGED <<loop, aoaVars, splitterVars, variogramVars, rangesVars>>

\* Lines 300-306: the nearest training instance of each new instance, and
\* the pairwise training distances with a missing diagonal.
Aoa_Distances ==
    /\ pc = "scaled"
    /\ ~(HasNaN(training_data) \/ HasNaN(new_data))
    /\ mindist' = BallTreeQuery(training_data, new_data)
    /\ train_dist' = PairwiseDistances(training_data)
    /\ pc' = "paired"
    /\ UNCHANGED <<training_data, new_data, fold_indices, thres,
                   train_dist_avgmean, DIs, masked_result>>
    /\ UNCHANGED <<loop, splitterVars, variogramVars, rangesVars>>

\* Line 309: no folds (None or an empty list), nothing is masked.
Aoa_NoFolds ==
    /\ pc = "paired"
    /\ fold_indices = <<>>
    /\ pc' = "masked"
    /\ UNCHANGED <<loop, aoaVars, splitterVars, variogramVars, rangesVars>>

\* Line 323: a boolean mask whose length is not the row's raises
\* IndexError, in the first pass of the loop.
Aoa_MaskIndexError ==
    /\ pc = "paired"
    /\ fold_indices # <<>>
    /\ Len(Concatenate(fold_indices)) # Cardinality(DOMAIN train_dist)
    /\ pc' = "raised"
    /\ UNCHANGED <<loop, aoaVars, splitterVars, variogramVars, rangesVars>>

\* Lines 309-323: the distances the fold mask selects are set to missing.
Aoa_MaskFolds ==
    /\ pc = "paired"
    /\ fold_indices # <<>>
    /\ Len(Concatenate(fold_indices)) = Cardinality(DOMAIN train_dist)
    /\ train_dist' = MaskFolds(train_dist, FoldsArray(fold_indices))
    /\ pc' = "masked"
    /\ UNCHANGED <<training_data, new_data, fold_indices, thres, mindist,
                   train_dist_avgmean, DIs, masked_result>>
    /\ UNCHANGED <<loop, splitterVars, variogramVars, rangesVars>>

\* Lines 326-328: the normalization constant, and mindist divided by it.
Aoa_Normalise ==
    /\ pc = "masked"
    /\ train_dist_avgmean' = AvgMean(NanMean(train_dist))
    /\ mindist' = [j \in DOMAIN mindist |->
                      FDiv(mindist[j], AvgMean(NanMean(train_dist)))]
    /\ pc' = "normalised"
    /\ UNCHANGED <<training_data, new_data, fold_indices, thres, train_dist,
                   DIs, masked_result>>
    /\ UNCHANGED <<loop, splitterVars, variogramVars, rangesVars>>

\* Lines 331-343: the threshold, the dissimilarity indices and the mask.
Aoa_Threshold ==
    /\ pc = "normalised"
    /\ LET train_dist_min == NanMin(train_dist)
           normalised == [i \in DOMAIN train_dist |->
                             FDiv(train_dist_min[i], train_dist_avgmean)]
       IN  /\ thres' = Quantile(normalised, thres)
           /\ DIs' = mindist
           /\ masked_result' =
                  [j \in DOMAIN mindist |->
                      IF FGt(mindist[j], Quantile(normalised, thres))
                      THEN 0 ELSE 1]
    /\ pc' = "done"
    /\ UNCHANGED <<training_data, new_data, fold_indices, mindist,
                   train_dist, train_dist_avgmean>>
    /\ UNCHANGED <<loop, splitterVars, variogramVars, rangesVars>>

NextAoa ==
    \/ Aoa_TooFewInstances
    \/ Aoa_Scale
    \/ Aoa_TreeRejectsNaN
    \/ Aoa_Distances
    \/ Aoa_NoFolds
    \/ Aoa_MaskIndexError
    \/ Aoa_MaskFolds
    \/ Aoa_Normalise
    \/ Aoa_Threshold

SpecAoa == InitAoa /\ [][NextAoa]_vars

(***************************************************************************)
(* Properties of aoa.                                                      *)
(***************************************************************************)
\* fold_indices lists every training index exactly once.
FoldsPartition ==
    /\ fold_indices # <<>>
    /\ Len(Concatenate(fold_indices)) = Cardinality(DOMAIN training_data)
    /\ \A i \in DOMAIN training_data :
           \E k \in 1..Len(Concatenate(fold_indices)) :
               Concatenate(fold_indices)[k] = i

\* The id of the fold that lists training index i.
FoldOf(i) ==
    CHOOSE f \in 1..Len(fold_indices) :
        \E k \in 1..Len(fold_indices[f]) : fold_indices[f][k] = i

\* The average of the means that are defined.
AvgMeanOfDefined(means) ==
    IF Defined(means) = {} THEN NaN
    ELSE RDiv(SumOver(means, Defined(means)), Cardinality(Defined(means)))

\* a <= b for floats: false when either is nan.
FLe(a, b) == a # NaN /\ b # NaN /\ a <= b

\* C5: aoa raises only for fewer than two training instances, and then
\* before it has computed anything; a call that returns gives one
\* dissimilarity index and one mask entry per new instance.
C5_RaisesOnlyBelowTwoInstances ==
    /\ pc = "raised" =>
           /\ Cardinality(DOMAIN training_data) <= 1
           /\ mindist = <<>> /\ train_dist = <<>>
    /\ pc = "done" =>
           /\ DOMAIN DIs = DOMAIN new_data
           /\ DOMAIN masked_result = DOMAIN new_data

\* C6: in the result the mask entry of a new instance is 1 exactly when its
\* dissimilarity index is at most the threshold, and 0 otherwise.
C6_MaskIsIndexWithinThreshold ==
    pc = "done" =>
        \A j \in DOMAIN DIs :
            /\ masked_result[j] \in {0, 1}
            /\ masked_result[j] = 1 <=> FLe(DIs[j], thres)

\* C8: with folds that partition the training indices, once the mask is
\* applied the distance from a training instance to every other instance
\* of its own fold is missing.
C8_SameFoldDistancesMasked ==
    (pc \in {"masked", "normalised", "done"} /\ FoldsPartition) =>
        \A i, j \in DOMAIN train_dist :
            (i # j /\ FoldOf(i) = FoldOf(j)) => train_dist[i][j] = NaN

\* C9: when a training instance has all its distances missing, the
\* normalization constant is the average of the defined means, not nan.
C9_UndefinedMeanExcluded ==
    (/\ pc \in {"normalised", "done"}
     /\ \E i \in DOMAIN train_dist : Defined(train_dist[i]) = {}) =>
        /\ train_dist_avgmean # NaN
        /\ train_dist_avgmean = AvgMeanOfDefined(NanMean(train_dist))

(***************************************************************************)
(* plot_autocorrelation_ranges: one effective range per covariate, found   *)
(* by the loop of the caller or by the tasks of a multiprocessing.Pool.    *)
(* A list of Python is a sequence here: position k of the list is k + 1.   *)
(***************************************************************************)
\* Most covariates, most workers.
MaxCols == 3
MaxWorkers == 3

\* The distinct covariate columns, and the effective ranges a fit gives.
Columns == 0..1
EffRanges == 1..2

\* What calculate_range does with one column: it returns the range fitted
\* by curve_fit, or raises what variogram_at_lag or curve_fit raise.
Outcomes ==
    {[raised |-> FALSE, value |-> v] : v \in EffRanges}
        \cup {[raised |-> TRUE, value |-> 0]}

\* calculate_range(args): XYs, lags, bw and the metric are those of the call
\* for every covariate, so the outcome is a function of the column alone.
calculate_range(col) == fitted[col]

\* The AsyncResult of a task: waiting in the pool's task queue, held by a
\* worker, or ready with the outcome the worker sent back.
AsyncResult(col, state, outcome) ==
    [args |-> col, state |-> state, outcome |-> outcome]

NoOutcome == [raised |-> FALSE, value |-> 0]

NumCols == Cardinality(DOMAIN X_values_T)

Tasks(state) == {k \in 1..Len(results) : results[k].state = state}

\* The result the joining loop takes next, were it to take whichever task
\* has finished instead of the next one submitted.
NextReadyResult ==
    IF \E k \in Tasks("ready") : k > Len(ranges)
    THEN CHOOSE k \in Tasks("ready") :
             /\ k > Len(ranges)
             /\ \A j \in Tasks("ready") : j <= k
    ELSE Len(ranges) + 1

\* for result in results: the result the joining loop takes next.
NextResult == Len(ranges) + 1

InitRanges ==
    /\ pc = "start"
    /\ loop = 0
    /\ workers \in (-1)..MaxWorkers
    /\ X_values_T \in Frames(Columns, MaxCols)
    /\ fitted \in [Columns -> Outcomes]
    /\ results = <<>>
    /\ outqueue = <<>>
    /\ ranges = <<>>
    /\ SplittersIdle
    /\ VariogramIdle
    /\ AoaIdle

\* Lines 213-215: the pool is made with the workers asked for.
Ranges_Pool ==
    /\ pc = "start" /\ workers > 1
    /\ pc' = "submit"
    /\ UNCHANGED <<loop, splitterVars, variogramVars, aoaVars, rangesVars>>

\* Lines 213-214: workers = -1 takes the branch of the pool too, and
\* multiprocessing.Pool refuses a number of processes below one.
Ranges_PoolValueError ==
    /\ pc = "start" /\ workers = -1
    /\ pc' = "raised"
    /\ UNCHANGED <<loop, splitterVars, variogramVars, aoaVars, rangesVars>>

\* Lines 217-223: pool.apply_async queues the task of the next covariate
\* and its AsyncResult is appended to results.
Ranges_Submit ==
    /\ pc = "submit" /\ loop < NumCols
    /\ results' =
           Append(results, AsyncResult(X_values_T[loop], "queued", NoOutcome))
    /\ loop' = loop + 1
    /\ pc' = IF loop + 1 = NumCols THEN "get" ELSE "submit"
    /\ UNCHANGED <<workers, X_values_T, fitted, outqueue, ranges>>
    /\ UNCHANGED <<splitterVars, variogramVars, aoaVars>>

\* A free worker of the pool takes the oldest task of the task queue.
Worker_Start ==
    /\ Tasks("queued") # {}
    /\ Cardinality(Tasks("running")) < workers
    /\ LET k == CHOOSE q \in Tasks("queued") :
                    \A j \in Tasks("queued") : q <= j
       IN  results' = [results EXCEPT ![k].state = "running"]
    /\ UNCHANGED <<pc, loop, workers, X_values_T, fitted, outqueue, ranges>>
    /\ UNCHANGED <<splitterVars, variogramVars, aoaVars>>

\* A worker ends calculate_range (lines 150-160) for the task it holds and
\* sends the outcome back; the workers end in any order.
Worker_Finish ==
    /\ \E k \in Tasks("running") :
           /\ results' =
                  [results EXCEPT
                       ![k] = AsyncResult(results[k].args, "ready",
                                          calculate_range(results[k].args))]
           /\ outqueue' = Append(outqueue, k)
    /\ UNCHANGED <<pc, loop, workers, X_values_T, fitted, ranges>>
    /\ UNCHANGED <<splitterVars, variogramVars, aoaVars>>

\* Lines 225-226: result.get() waits until its task is ready and gives the
\* value the task returned.
Ranges_Get ==
    /\ pc = "get"
    /\ NextResult \in Tasks("ready")
    /\ ~results[NextResult].outcome.raised
    /\ ranges' = Append(ranges, results[NextResult].outcome.value)
    /\ pc' = IF Len(ranges) + 1 = Len(results) THEN "close" ELSE "get"
    /\ UNCHANGED <<loop, workers, X_values_T, fitted, results, outqueue>>
    /\ UNCHANGED <<splitterVars, variogramVars, aoaVars>>

\* Line 226: result.get() raises again what its task raised.
Ranges_GetRaises ==
    /\ pc = "get"
    /\ NextResult \in Tasks("ready")
    /\ results[NextResult].outcome.raised
    /\ pc' = "raised"
    /\ UNCHANGED <<loop, splitterVars, variogramVars, aoaVars, rangesVars>>

\* Line 228: pool.close().
Ranges_Close ==
    /\ pc = "close"
    /\ pc' = "join"
    /\ UNCHANGED <<loop, splitterVars, variogramVars, aoaVars, rangesVars>>

\* Lines 229, 240-254: pool.join() waits for the workers to end, then the
\* ranges are plotted and returned.
Ranges_Join ==
    /\ pc = "join"
    /\ Tasks("queued") = {} /\ Tasks("running") = {}
    /\ pc' = "done"
    /\ UNCHANGED <<loop, splitterVars, variogramVars, aoaVars, rangesVars>>

\* Lines 230-238: with one worker the caller fits one covariate after the
\* other itself.
Ranges_Sequential ==
    /\ pc = "start" /\ workers # -1 /\ ~(workers > 1)
    /\ pc' = "loop"
    /\ UNCHANGED <<loop, splitterVars, variogramVars, aoaVars, rangesVars>>

Ranges_SequentialFit ==
    /\ pc = "loop" /\ loop < NumCols
    /\ ~calculate_range(X_values_T[loop]).raised
    /\ ranges' = Append(ranges, calculate_range(X_values_T[loop]).value)
    /\ loop' = loop + 1
    /\ pc' = IF loop + 1 = NumCols THEN "done" ELSE "loop"
    /\ UNCHANGED <<workers, X_values_T, fitted, results, outqueue>>
    /\ UNCHANGED <<splitterVars, variogramVars, aoaVars>>

Ranges_SequentialRaises ==
    /\ pc = "loop" /\ loop < NumCols
    /\ calculate_range(X_values_T[loop]).raised
    /\ pc' = "raised"
    /\ UNCHANGED <<loop, splitterVars, variogramVars, aoaVars, rangesVars>>

NextRanges ==
    \/ Ranges_Pool
    \/ Ranges_PoolValueError
    \/ Ranges_Submit
    \/ Worker_Start
    \/ Worker_Finish
    \/ Ranges_Get
    \/ Ranges_GetRaises
    \/ Ranges_Close
    \/ Ranges_Join
    \/ Ranges_Sequential
    \/ Ranges_SequentialFit
    \/ Ranges_SequentialRaises

SpecRanges == InitRanges /\ [][NextRanges]_vars

(***************************************************************************)
(* Properties of the worker pool.                                          *)
(***************************************************************************)
\* The list the loop of one worker gives: the effective range of each
\* covariate, in the order of the covariates.
SequentialRanges ==
    [k \in 1..NumCols |-> calculate_range(X_values_T[k - 1]).value]

\* C11: with more than one worker, whatever the order in which the workers
\* take and finish the tasks, the ranges joined so far are the effective
\* ranges of the first covariates in the order they were submitted, and
\* when the function has returned the list has one entry per covariate, is
\* the list the loop of one worker returns, and every task had been
\* submitted, finished and joined before.
C11_JoinedInSubmissionOrder ==
    /\ workers > 1 =>
           /\ Len(ranges) <= NumCols
           /\ \A k \in 1..Len(ranges) : ranges[k] = SequentialRanges[k]
    /\ (workers > 1 /\ pc = "done") =>
           /\ Len(ranges) = NumCols
           /\ ranges = SequentialRanges
           /\ Len(results) = NumCols
           /\ Tasks("ready") = 1..NumCols
           /\ Len(outqueue) = NumCols
    /\ (workers \in 0..1 /\ pc = "done") => ranges = SequentialRanges

\* The pool has returned the ranges of covariates with different ranges
\* whose tasks the workers finished in another order than submitted.
C11_Witness ==
    /\ workers > 1 /\ pc = "done"
    /\ Len(ranges) = MaxCols
    /\ ranges[1] # ranges[2]
    /\ outqueue[1] # 1
    /\ \E k \in 1..(Len(outqueue) - 1) : outqueue[k] > outqueue[k + 1]

====
